---- MODULE Spec2Model ----
(***************************************************************************)
(* Model of setup/register_service.py and setup/deregister_service.py:     *)
(* HAProxy service blocks are appended to / removed from the configuration *)
(* file of every gateway host.                                             *)
(*                                                                         *)
(* Text representation.  A text (a file's content, a Python str) is the  *)
(* sequence of the pieces between its newline characters, as Python's     *)
(* text.split("\n") gives them: "a\nb\n" is <<a, b, <<>>>>, "a\nb" is     *)
(* <<a, b>> and "" is << <<>> >>.  The encoding is one-to-one, so whether  *)
(* a file ends in a newline is part of the state.  A piece (a line) is a   *)
(* sequence of tokens, each standing for a fixed run of characters; the    *)
(* substring tests of the code (grep, Python's "in") are contiguous        *)
(* sub-sequence tests on tokens.                                           *)
(***************************************************************************)
EXTENDS Integers, Sequences, FiniteSets, TLC

\* ------------------------------------------------------------------ bounds

\* Number of gateway hosts modelled (the source lists five addresses).
NumHosts == 2

\* Number of script invocations in one behaviour.
MaxRuns == 2
\* The longest list of ports entered at the prompt of a generator run.
MaxPorts == 2

\* ------------------------------------------------------------------ text

\* The texts "" and "\n".
EmptyText == << <<>> >>
NL == << <<>>, <<>> >>

\* String concatenation t1 + t2: the last piece of t1 continues in the first of t2.
Cat(t1, t2) ==
    SubSeq(t1, 1, Len(t1) - 1) \o << t1[Len(t1)] \o t2[1] >> \o Tail(t2)

\* Characters removed by str.strip(): here the indentation and space tokens.
Whitespace == {"    ", " "}

\* line.strip() == ""
IsBlank(line) == \A i \in 1..Len(line) : line[i] \in Whitespace

\* Python "pat in line" / grep 'pat' on one line: pat occurs as a substring.
Contains(pat, line) ==
    \E i \in 1..(Len(line) - Len(pat) + 1) : SubSeq(line, i, i + Len(pat) - 1) = pat

\* str.splitlines(): a newline at the end of the text ends the last line and
\* opens no new one.
splitlines(text) ==
    IF text[Len(text)] = <<>> THEN SubSeq(text, 1, Len(text) - 1) ELSE text

\* "\n".join(lines)
join(lines) == IF lines = <<>> THEN EmptyText ELSE lines

\* Python slices on a list, 0-based: xs[:n] for n >= 0, and xs[n:], where a
\* negative n counts from the end.
SliceTo(xs, n) == SubSeq(xs, 1, IF n < Len(xs) THEN n ELSE Len(xs))
SliceFrom(xs, n) ==
    IF n >= 0 THEN SubSeq(xs, n + 1, Len(xs))
    ELSE SubSeq(xs, (IF Len(xs) + n > 0 THEN Len(xs) + n ELSE 0) + 1, Len(xs))

\* ------------------------------------------------------------------ generator

\* f"{p['port']}": the decimal rendering of the port number.
PortText(port) == ToString(port)

\* Variant: "balance source" written when load balancing is enabled.
PortLines_balance(service, domain, p) ==
    LET frontend == service \o <<"_", PortText(p.port), "_front">>
        backend  == service \o <<"_", PortText(p.port), "_back">>
    IN  << <<"frontend ">> \o frontend,
           <<"    ", "bind *:", PortText(p.port)>>,
           <<"    ", "default_backend ">> \o backend,
           <<>>,
           <<"backend ">> \o backend,
           <<"    ", "server-template ">> \o service \o <<" 10 _">> \o service
               \o <<"._tcp.">> \o domain \o <<" resolvers consul_dns check inter 2s">> >>
        \o (IF p.load_balance THEN << <<"    ", "balance source">> >> ELSE <<>>)
        \o (IF p.health_check THEN << <<"    ", "option tcp-check">> >> ELSE <<>>)
        \o << <<>> >>

\* The lines generate_haproxy_block emits for one port entry.
PortLines(service, domain, p) ==
    LET frontend == service \o <<"_", PortText(p.port), "_front">>
        backend  == service \o <<"_", PortText(p.port), "_back">>
    IN  << <<"frontend ">> \o frontend,
           <<"    ", "bind *:", PortText(p.port)>>,
           <<"    ", "default_backend ">> \o backend,
           <<>>,
           <<"backend ">> \o backend,
           <<"    ", "server-template ">> \o service \o <<" 10 _">> \o service
               \o <<"._tcp.">> \o domain \o <<" resolvers consul_dns check inter 2s">> >>
        \o (IF ~p.load_balance THEN << <<"    ", "balance source">> >> ELSE <<>>)
        \o (IF p.health_check THEN << <<"    ", "option tcp-check">> >> ELSE <<>>)
        \o << <<>> >>

RECURSIVE BlockLines(_, _, _)
BlockLines(service, domain, ports) ==
    IF ports = <<>> THEN <<>>
    ELSE PortLines(service, domain, Head(ports)) \o BlockLines(service, domain, Tail(ports))

generate_haproxy_block(service, domain, ports) == join(BlockLines(service, domain, ports))

\* ask_service_info: the domain defaults to <service>.service.consul
DefaultDomain(service) == service \o <<".service.consul">>

\* ------------------------------------------------------------------ register

\* deploy_to_gateways writes "\n" + config_block to LOCAL_TMP_CFG, and scp
\* copies that file to every host's /tmp before the host's check command runs.
LocalTmpCfg(block) == Cat(NL, block)

\* Variant: the test inverted (! grep -q), which succeeds when no line contains
\* the pattern.
grep_q_not(pattern, text) ==
    LET lines == splitlines(text)
    IN  \A i \in 1..Len(lines) : ~Contains(pattern, lines[i])

\* grep -q 'pattern' file: some line of the file contains the pattern.
grep_q(pattern, text) ==
    LET lines == splitlines(text)
    IN  \E i \in 1..Len(lines) : Contains(pattern, lines[i])

\* Variant: the second line of the block as the pattern.
MarkerLine_second(block) == splitlines(block)[2]

\* config_block.splitlines()[0], the pattern of the check command
\* (only evaluated where the block has a first line).
MarkerLine(block) == splitlines(block)[1]

\* Variant: the check command with && in place of ||, which appends where the
\* marker is found.
RegisterText_and(text, block) ==
    IF grep_q(splitlines(block)[1], text) THEN Cat(text, Cat(NL, block)) ELSE text

\* The check command on the host: grep -q marker cfg || (tee -a cfg < tmp && restart)
\* The text of the live file after a tee that succeeded.
RegisterText(text, block) ==
    IF grep_q(MarkerLine(block), text) THEN text ELSE Cat(text, LocalTmpCfg(block))

\* ------------------------------------------------------------------ deregister

\* Variant: the name followed by any segment ("frontend <name>_"), which also
\* marks the port-qualified stanzas the generator writes.
IsMarker_prefix(name, line) ==
    \/ Contains(<<"frontend ">> \o name \o <<"_">>, line)
    \/ Contains(<<"backend ">> \o name \o <<"_">>, line)

\* The condition of the scan that marks a line of the service's block.
IsMarker(name, line) ==
    \/ Contains(<<"frontend ">> \o name \o <<"_front">>, line)
    \/ Contains(<<"backend ">> \o name \o <<"_back">>, line)

\* The for loop of update_haproxy_config over enumerate(lines), from index idx
\* (0-based) with the loop's variables; yields start_idx and end_idx at loop exit.
RECURSIVE Scan(_, _, _, _, _)

\* Variant: every marker line sets start_idx, so a later one moves it.
Scan_move(lines, name, idx, start_idx, in_block) ==
    IF idx >= Len(lines) THEN [start_idx |-> start_idx, end_idx |-> -1]
    ELSE IF IsMarker(name, lines[idx + 1])
         THEN Scan(lines, name, idx + 1, idx, TRUE)
    ELSE IF in_block /\ IsBlank(lines[idx + 1])
         THEN [start_idx |-> start_idx, end_idx |-> idx]
    ELSE Scan(lines, name, idx + 1, start_idx, in_block)

Scan(lines, name, idx, start_idx, in_block) ==
    IF idx >= Len(lines) THEN [start_idx |-> start_idx, end_idx |-> -1]
    ELSE IF IsMarker(name, lines[idx + 1])
         THEN Scan(lines, name, idx + 1, IF start_idx = -1 THEN idx ELSE start_idx, TRUE)
    ELSE IF in_block /\ IsBlank(lines[idx + 1])
         THEN [start_idx |-> start_idx, end_idx |-> idx]
    ELSE Scan(lines, name, idx + 1, start_idx, in_block)

\* Variant: start_idx initialised to 0 instead of -1.
Locate_zero(lines, name) == Scan(lines, name, 0, 0, FALSE)

Locate(lines, name) == Scan(lines, name, 0, -1, FALSE)

\* Variant: the slice after the block taken from end_idx instead of end_idx + 1.
NewCfg_keep(lines, start_idx, end_idx) ==
    SliceTo(lines, start_idx) \o SliceFrom(lines, end_idx)

\* new_cfg = lines[:start_idx] + lines[end_idx + 1:]
NewCfg(lines, start_idx, end_idx) ==
    SliceTo(lines, start_idx) \o SliceFrom(lines, end_idx + 1)

\* The file written to tmp_path and copied over the live file.
TmpText(new_cfg) == Cat(join(new_cfg), NL)

\* What a deregistration that gets through writes to the live file.
DeregisterText(text, name) ==
    LET lines == splitlines(text)
        loc   == Locate(lines, name)
    IN  TmpText(NewCfg(lines, loc.start_idx, loc.end_idx))

\* ------------------------------------------------------------------ inputs

\* GATEWAY_IPS, by position in the list.
Hosts == 1..NumHosts

Etcd == <<"etcd">>
Redis == <<"redis">>

PortEntry(port, lb, hc) == [port |-> port, load_balance |-> lb, health_check |-> hc]

\* What ask_service_info can return: no port, one port, and two ports of
\* which the second lies outside 1..65535.
ServiceSpecs ==
    { [service |-> Etcd, domain |-> DefaultDomain(Etcd), ports |-> <<>>],
      [service |-> Etcd, domain |-> DefaultDomain(Etcd),
       ports |-> <<PortEntry(80, TRUE, TRUE)>>],
      [service |-> Redis, domain |-> DefaultDomain(Redis),
       ports |-> <<PortEntry(80, FALSE, TRUE), PortEntry(70000, TRUE, FALSE)>>] }

\* Names typed at the deregister prompt: a service name, and a name that
\* carries the port segment of a generated stanza.
DeregisterNames == {Etcd, Etcd \o <<"_", "80">>}

BlockOf(spec) == generate_haproxy_block(spec.service, spec.domain, spec.ports)

\* Live configuration files found on a host before the first run.
\* A hand-written etcd block in the service-level naming, between other
\* content and closed by a blank line.
CfgLegacy ==
    Cat(join(<< <<"global">>, <<>>,
                <<"frontend ", "etcd", "_front">>, <<"    ", "bind *:", "80">>, <<>>,
                <<"backend ", "etcd", "_back">>, <<"    ", "mode tcp">>, <<>>,
                <<"listen stats">> >>), NL)

\* A hand-written etcd block at the top of the file, its two stanzas with no
\* blank line between them, and after it a commented-out generated frontend
\* line that ends the file: no blank line follows the block.
CfgTrailing ==
    Cat(join(<< <<"frontend ", "etcd", "_front">>, <<"    ", "bind *:", "80">>,
                <<"backend ", "etcd", "_back">>,
                <<"# ", "frontend ", "etcd", "_", "80", "_front">> >>), NL)

\* Only the block generated for etcd on port 80, and a blank line after it.
CfgGenerated ==
    Cat(generate_haproxy_block(Etcd, DefaultDomain(Etcd), <<PortEntry(80, TRUE, TRUE)>>), NL)

InitialCfgs == {CfgLegacy, CfgTrailing, CfgGenerated}

\* ------------------------------------------------------------------ state

VARIABLES
    cfg,           \* cfg[h]: the text of /etc/haproxy/haproxy.cfg on host h
    status,        \* "idle", "running", "done" (script returned), "aborted" (uncaught exception)
    mode,          \* the script of the current run: "register" or "deregister"
    service_info,  \* register: what ask_service_info returned
    config_block,  \* register: the generated block
    service_name,  \* deregister: the name typed
    gw,            \* position in GATEWAY_IPS of the host the loop is at
    runs,          \* script invocations so far
    attempts,      \* attempts[h]: loop iterations of the current run that contacted host h
    last           \* the latest loop iteration of the current run, as it ended

vars == <<cfg, status, mode, service_info, config_block, service_name, gw, runs,
          attempts, last>>

\* No iteration yet.  host: the host of the iteration (0: none); before: its
\* live file when the iteration began; result: what the script reported for it;
\* failed: the remote step that failed, or "none"; pushed: the live file was
\* written; reload: "none", or how the restart/reload command ended.
NoIteration ==
    [host |-> 0, before |-> EmptyText, result |-> "none", failed |-> "none",
     pushed |-> FALSE, reload |-> "none"]

Init ==
    /\ cfg \in [Hosts -> InitialCfgs]
    /\ status = "idle"
    /\ mode = "none"
    /\ service_info = [service |-> <<>>, domain |-> <<>>, ports |-> <<>>]
    /\ config_block = EmptyText
    /\ service_name = <<>>
    /\ gw = 1
    /\ runs = 0
    /\ attempts = [h \in Hosts |-> 0]
    /\ last = NoIteration

ResetRun ==
    /\ gw' = 1
    /\ runs' = runs + 1
    /\ attempts' = [h \in Hosts |-> 0]
    /\ last' = NoIteration

\* register_service.main up to the host loop: the block is generated and
\* written to the local scratch file.
StartRegister(spec) ==
    /\ status # "running"
    /\ runs < MaxRuns
    /\ status' = "running"
    /\ mode' = "register"
    /\ service_info' = spec
    /\ config_block' = BlockOf(spec)
    /\ ResetRun
    /\ UNCHANGED <<cfg, service_name>>

\* How one iteration of the register loop can end on a host: scp fails; the
\* first line of an empty block is indexed; ssh or the remote command fails
\* (ssh itself, tee, systemctl restart); every command exits 0.
RegisterOutcomes(block, text) ==
    {"scp_fail"} \cup
    (IF splitlines(block) = <<>> THEN {"index_error"}
     ELSE {"ssh_fail"} \cup
          (IF grep_q(MarkerLine(block), text) THEN {"ok"}
           ELSE {"tee_fail", "restart_fail", "ok"}))

\* One iteration of the loop of deploy_to_gateways, on host gw.  Every
\* outcome but "ok" raises out of the loop and ends the script.
RegisterHost ==
    /\ status = "running"
    /\ mode = "register"
    /\ \E o \in RegisterOutcomes(config_block, cfg[gw]) :
          LET h    == gw
              text == IF o \in {"restart_fail", "ok"}
                      THEN RegisterText(cfg[h], config_block) ELSE cfg[h]
          IN  /\ cfg' = [cfg EXCEPT ![h] = text]
              /\ last' = [host |-> h,
                          before |-> cfg[h],
                          result |-> IF o = "ok" THEN "deployed" ELSE "raised",
                          failed |-> IF o \in {"ok", "index_error"} THEN "none" ELSE o,
                          pushed |-> text # cfg[h],
                          reload |-> IF text = cfg[h] THEN "none"
                                     ELSE IF o = "ok" THEN "ok" ELSE "failed"]
              /\ attempts' = [attempts EXCEPT ![h] = @ + 1]
              /\ status' = IF o # "ok" THEN "aborted"
                           ELSE IF gw = NumHosts THEN "done" ELSE "running"
              /\ gw' = IF o = "ok" THEN gw + 1 ELSE gw
    /\ UNCHANGED <<mode, service_info, config_block, service_name, runs>>

\* deregister_service.main up to the host loop: the name and the confirmation.
StartDeregister(name, confirmed) ==
    /\ status # "running"
    /\ runs < MaxRuns
    /\ status' = IF confirmed THEN "running" ELSE "done"
    /\ mode' = "deregister"
    /\ service_name' = IF confirmed THEN name ELSE <<>>
    /\ ResetRun
    /\ UNCHANGED <<cfg, service_info, config_block>>

\* How one call of update_haproxy_config can end on a host: the cat fails;
\* with a block found, the scp fails, or the remote cp, or the reload after it;
\* every command exits 0.
DeregisterOutcomes(name, text) ==
    {"cat_fail"} \cup
    (IF Locate(splitlines(text), name).start_idx = -1 THEN {"ok"}
     ELSE {"scp_fail", "cp_fail", "reload_fail", "ok"})

\* Variant: a host whose scp failed is tried again.
DeregisterHost_retry ==
    /\ status = "running"
    /\ mode = "deregister"
    /\ \E o \in DeregisterOutcomes(service_name, cfg[gw]) :
          LET h      == gw
              found  == Locate(splitlines(cfg[h]), service_name).start_idx # -1
              copied == found /\ o \in {"reload_fail", "ok"}
          IN  /\ cfg' = [cfg EXCEPT ![h] =
                            IF copied THEN DeregisterText(@, service_name) ELSE @]
              /\ last' = [host |-> h,
                          before |-> cfg[h],
                          result |-> IF o = "cat_fail" THEN "read_failed"
                                     ELSE IF ~found THEN "not_found"
                                     ELSE IF o = "scp_fail" THEN "raised"
                                     ELSE "removed",
                          failed |-> IF o = "ok" THEN "none" ELSE o,
                          pushed |-> copied,
                          reload |-> IF ~copied THEN "none"
                                     ELSE IF o = "ok" THEN "ok" ELSE "failed"]
              /\ attempts' = [attempts EXCEPT ![h] = @ + 1]
              /\ status' = IF gw = NumHosts /\ o # "scp_fail" THEN "done" ELSE "running"
              /\ gw' = IF o = "scp_fail" THEN gw ELSE gw + 1
    /\ UNCHANGED <<mode, service_info, config_block, service_name, runs>>

\* One iteration of the loop of deregister_service.main: update_haproxy_config
\* on host gw, and the except clause around it.
DeregisterHost ==
    /\ status = "running"
    /\ mode = "deregister"
    /\ \E o \in DeregisterOutcomes(service_name, cfg[gw]) :
          LET h      == gw
              found  == Locate(splitlines(cfg[h]), service_name).start_idx # -1
              copied == found /\ o \in {"reload_fail", "ok"}
          IN  /\ cfg' = [cfg EXCEPT ![h] =
                            IF copied THEN DeregisterText(@, service_name) ELSE @]
              /\ last' = [host |-> h,
                          before |-> cfg[h],
                          result |-> IF o = "cat_fail" THEN "read_failed"
                                     ELSE IF ~found THEN "not_found"
                                     ELSE IF o = "scp_fail" THEN "raised"
                                     ELSE "removed",
                          failed |-> IF o = "ok" THEN "none" ELSE o,
                          pushed |-> copied,
                          reload |-> IF ~copied THEN "none"
                                     ELSE IF o = "ok" THEN "ok" ELSE "failed"]
              /\ attempts' = [attempts EXCEPT ![h] = @ + 1]
              /\ status' = IF gw = NumHosts THEN "done" ELSE "running"
              /\ gw' = gw + 1
    /\ UNCHANGED <<mode, service_info, config_block, service_name, runs>>

Next ==
    \/ \E spec \in ServiceSpecs : StartRegister(spec)
    \/ RegisterHost
    \/ \E name \in DeregisterNames, confirmed \in BOOLEAN : StartDeregister(name, confirmed)
    \/ DeregisterHost

Spec == Init /\ [][Next]_vars

\* ---- The generator on its own ----
\* Answers to the prompts of ask_service_info: a service name, a domain (the
\* default or one typed in), and up to MaxPorts port entries.
GenPortEntries ==
    {PortEntry(port, lb, hc) : port \in {80, 2379}, lb \in BOOLEAN, hc \in BOOLEAN}

GenPortLists == UNION {[1..n -> GenPortEntries] : n \in 0..MaxPorts}

GenSpecs ==
    {[service |-> service, domain |-> domain, ports |-> ports] :
        service \in {Etcd, Redis},
        domain \in {DefaultDomain(Etcd), <<"lan">>},
        ports \in GenPortLists}

\* register_service.main from the prompts to the generated block.
Generate == \E spec \in GenSpecs : StartRegister(spec)

SpecGen == Init /\ [][Generate]_vars

\* ------------------------------------------------------------------ properties

\* The line occurs verbatim as a whole line of the text.
HasLine(text, line) == \E i \in 1..Len(splitlines(text)) : splitlines(text)[i] = line

\* The register runs whose block has a first line (ports is not empty).
HasMarker == mode = "register" /\ splitlines(config_block) # <<>>

\* The latest iteration ran the check command, and its tee, if any, succeeded.
CheckRan == HasMarker /\ last.host # 0 /\ last.failed \in {"none", "restart_fail"}

\* C1: register is idempotent per host.  Where the check command went through
\* on a host, the host's ConfigText is the one register makes of the text it
\* found, and registering the same block again leaves it as it is; and for every
\* ConfigText a host can hold and every generated block, registering twice
\* gives the text that registering once gives.
C1_RegisterIdempotent ==
    /\ CheckRan =>
          /\ cfg[last.host] = RegisterText(last.before, config_block)
          /\ RegisterText(cfg[last.host], config_block) = cfg[last.host]
    /\ \A h \in Hosts : \A spec \in ServiceSpecs : spec.ports # <<>> =>
          RegisterText(RegisterText(cfg[h], BlockOf(spec)), BlockOf(spec))
              = RegisterText(cfg[h], BlockOf(spec))

\* A second register run of the block that the first run appended to an
\* initial file has passed the host and left the file as the first run made it.
C1_Witness ==
    /\ runs = 2
    /\ HasMarker
    /\ last.result = "deployed"
    /\ cfg[last.host] = last.before
    /\ \E x \in InitialCfgs :
          x # last.before /\ last.before = Cat(x, Cat(NL, config_block))

Succeeded(r) == r \in {"deployed", "removed"}

\* C2: best-effort fleet processing.  Once a run has ended, a failure of a
\* remote step on a host has not kept the hosts after it from being processed.
C2_BestEffort ==
    (status \in {"done", "aborted"} /\ last.failed # "none") =>
        \A j \in Hosts : j > last.host => attempts[j] > 0

\* C4: on the register path, where markerLine is no whole line of the host's
\* ConfigText and the append command succeeds, the new ConfigText is the old
\* one followed by the block (after the newline that separates them).
C4_AbsentIsAppended ==
    (CheckRan /\ ~HasLine(last.before, splitlines(config_block)[1])) =>
        \E sep \in {EmptyText, NL} :
            cfg[last.host] = Cat(Cat(last.before, sep), config_block)

\* A line of the kind the locator looks for: it contains the frontend or the
\* backend declaration of the service.
ServiceMarker(name, line) ==
    \/ Contains(<<"frontend ">> \o name \o <<"_front">>, line)
    \/ Contains(<<"backend ">> \o name \o <<"_back">>, line)

\* The 0-based indices of the marker lines, and the least element of a set.
MarkerIdx(lines, name) == {i \in 0..(Len(lines) - 1) : ServiceMarker(name, lines[i + 1])}
Least(S) == CHOOSE x \in S : \A y \in S : x <= y

\* start: the first marker line.  The blank lines after start, and end: the
\* first of them.
BlockStart(lines, name) == Least(MarkerIdx(lines, name))
BlanksAfter(lines, name) ==
    {i \in (BlockStart(lines, name) + 1)..(Len(lines) - 1) : IsBlank(lines[i + 1])}
BlockEnd(lines, name) == Least(BlanksAfter(lines, name))

\* The latest iteration is one of a deregister run; the lines it found.
Reached == mode = "deregister" /\ last.host # 0
FoundLines == splitlines(last.before)

\* C5: on the deregister path, a host whose ConfigText holds no marker line of
\* the service is reported as failed, keeps its ConfigText, and sees neither a
\* write of its live file nor a reload.
C5_NotFoundLeavesHost ==
    (Reached /\ MarkerIdx(FoundLines, service_name) = {}) =>
        /\ last.result \in {"not_found", "read_failed"}
        /\ cfg[last.host] = last.before
        /\ ~last.pushed
        /\ last.reload = "none"

\* The host was read, no marker line was in it, and the run reported so.
C5_Witness ==
    /\ Reached
    /\ MarkerIdx(FoundLines, service_name) = {}
    /\ last.result = "not_found"

\* C6: where a marker line is found and no blank line follows it before the
\* end of the file, the ConfigText written by deregister is exactly the lines
\* before start.
C6_TrailingBlockRemoved ==
    (/\ Reached
     /\ last.pushed
     /\ MarkerIdx(FoundLines, service_name) # {}
     /\ BlanksAfter(FoundLines, service_name) = {}) =>
        splitlines(cfg[last.host]) = SubSeq(FoundLines, 1, BlockStart(FoundLines, service_name))

\* The block was found with a blank line closing it, and the file was written.
FoundClosed ==
    /\ Reached
    /\ last.pushed
    /\ MarkerIdx(FoundLines, service_name) # {}
    /\ BlanksAfter(FoundLines, service_name) # {}

\* C7 as stated: the ConfigText written by deregister is the lines [0, start)
\* followed by the lines [end, EOF), end being the closing blank line.
C7_SpanHalfOpen ==
    FoundClosed =>
        splitlines(cfg[last.host]) =
            SubSeq(FoundLines, 1, BlockStart(FoundLines, service_name))
            \o SubSeq(FoundLines, BlockEnd(FoundLines, service_name) + 1, Len(FoundLines))

\* C7 as amended: the ConfigText written by deregister is the lines [0, start)
\* followed by the lines (end, EOF), the closing blank line at end being removed
\* with the block, joined by newlines and ended by one newline.
C7_SpanWithTerminator ==
    FoundClosed =>
        cfg[last.host] =
            Cat(join(SubSeq(FoundLines, 1, BlockStart(FoundLines, service_name))
                     \o SubSeq(FoundLines, BlockEnd(FoundLines, service_name) + 2,
                               Len(FoundLines))), NL)

\* A block was cut out from between lines that stay.
C7_Witness ==
    /\ FoundClosed
    /\ BlockStart(FoundLines, service_name) > 0
    /\ BlockEnd(FoundLines, service_name) < Len(FoundLines) - 1
    /\ cfg[last.host] # last.before

\* C8: deregistering a service by its name on a host whose ConfigText is the
\* block generated for a single-port ServiceSpec of that service and a blank
\* line succeeds and leaves an empty ConfigText.
C8_GeneratedBlockRemoved ==
    (/\ Reached
     /\ last.failed = "none"
     /\ \E spec \in ServiceSpecs :
           /\ Len(spec.ports) = 1
           /\ spec.service = service_name
           /\ last.before = Cat(BlockOf(spec), NL)) =>
        /\ last.result = "removed"
        /\ splitlines(cfg[last.host]) = <<>>

\* ports is not empty and every port lies in 1..65535.
ValidSpec(spec) ==
    /\ spec.ports # <<>>
    /\ \A i \in 1..Len(spec.ports) : spec.ports[i].port \in 1..65535

\* C9: a register run with an invalid ServiceSpec contacts no host.
C9_InvalidSpecContactsNoHost ==
    (mode = "register" /\ ~ValidSpec(service_info)) =>
        \A h \in Hosts : attempts[h] = 0

\* C10: a host is reported as succeeded only if no remote step on it failed.
C10_SuccessMeansNoFailure ==
    Succeeded(last.result) => (last.failed = "none" /\ last.reload # "failed")

\* The lines that are not blank, in order.
NotBlank(line) == ~IsBlank(line)
NonBlank(lines) == SelectSeq(lines, NotBlank)

\* The ServiceSpecs of the service named at the deregister prompt whose
\* generated block, followed by a blank line, is all the host held.
RoundTripSpecs ==
    {spec \in ServiceSpecs :
        /\ spec.ports # <<>>
        /\ spec.service = service_name
        /\ last.before = Cat(BlockOf(spec), NL)}

\* C11: round trip.  Where a deregister run of the service has passed a host
\* that held only the generated block and a blank line, registering the same
\* spec on what deregister left gives a ConfigText whose non-blank lines are,
\* line for line, the non-blank lines of the generated block.
C11_RoundTrip ==
    Reached =>
        \A spec \in RoundTripSpecs :
            NonBlank(splitlines(RegisterText(cfg[last.host], BlockOf(spec))))
                = NonBlank(splitlines(BlockOf(spec)))

\* A deregister run of "etcd" has passed a host that held only the block
\* generated for etcd, and the register of that spec on what it left there
\* finds the marker line.
C11_Witness ==
    /\ Reached
    /\ RoundTripSpecs # {}
    /\ last.result = "not_found"
    /\ \A spec \in RoundTripSpecs :
           grep_q(MarkerLine(BlockOf(spec)), cfg[last.host])

\* str.strip() at the left end of a line: the indentation is dropped.
RECURSIVE lstrip(_)
lstrip(line) ==
    IF line # <<>> /\ Head(line) \in Whitespace THEN lstrip(Tail(line)) ELSE line

\* The block of one port as the claim lists it, each line without its
\* indentation.
C12_PortBlock(service, domain, p) ==
    LET port == PortText(p.port)
    IN  << <<"frontend ">> \o service \o <<"_", port, "_front">>,
           <<"bind *:", port>>,
           <<"default_backend ">> \o service \o <<"_", port, "_back">>,
           <<>>,
           <<"backend ">> \o service \o <<"_", port, "_back">>,
           <<"server-template ">> \o service \o <<" 10 _">> \o service
               \o <<"._tcp.">> \o domain \o <<" resolvers consul_dns check inter 2s">> >>
        \o (IF p.load_balance = FALSE THEN << <<"balance source">> >> ELSE <<>>)
        \o (IF p.health_check = TRUE THEN << <<"option tcp-check">> >> ELSE <<>>)
        \o << <<>> >>

\* The blocks of ports[from..Len(ports)], one after the other.
RECURSIVE C12_Blocks(_, _, _, _)
C12_Blocks(service, domain, ports, from) ==
    IF from > Len(ports) THEN <<>>
    ELSE C12_PortBlock(service, domain, ports[from])
            \o C12_Blocks(service, domain, ports, from + 1)

\* C12: for every ServiceSpec with at least one port the generated block is,
\* line by line and leaving indentation aside, the per-port blocks in the order
\* of ports: frontend line, bind, default_backend, blank, backend line,
\* server-template, "balance source" exactly when load_balance is false,
\* "option tcp-check" exactly when health_check is true, blank.
C12_GeneratorOutput ==
    (mode = "register" /\ service_info.ports # <<>>) =>
        LET expected == C12_Blocks(service_info.service, service_info.domain,
                                   service_info.ports, 1)
        IN  /\ Len(config_block) = Len(expected)
            /\ \A i \in 1..Len(expected) : lstrip(config_block[i]) = expected[i]

\* A block was generated for two ports that differ in port number and in
\* both options.
C12_Witness ==
    /\ mode = "register"
    /\ Len(service_info.ports) = 2
    /\ service_info.ports[1].port # service_info.ports[2].port
    /\ service_info.ports[1].load_balance # service_info.ports[2].load_balance
    /\ service_info.ports[1].health_check # service_info.ports[2].health_check
    /\ Len(config_block) > 14

\* The frontend declaration line of a port entry.
FrontendLine(service, p) == <<"frontend ">> \o service \o <<"_", PortText(p.port), "_front">>

\* C13: for every valid ServiceSpec, the pattern of the check command is the
\* first line of the generated block, which is the frontend declaration line
\* of the first port; and that line decides on every host whether the check
\* command leaves the host's ConfigText as it is.
C13_MarkerIsFirstLine ==
    (mode = "register" /\ ValidSpec(service_info)) =>
        LET first == FrontendLine(service_info.service, service_info.ports[1])
        IN  /\ config_block[1] = first
            /\ MarkerLine(config_block) = config_block[1]
            /\ \A h \in Hosts :
                  RegisterText(cfg[h], config_block) = cfg[h] <=> grep_q(first, cfg[h])

\* A valid spec of two ports was generated; one host holds the frontend line
\* of its first port and another host does not.
C13_Witness ==
    /\ mode = "register"
    /\ ValidSpec(service_info)
    /\ Len(service_info.ports) = 2
    /\ service_info.ports[1].port # service_info.ports[2].port
    /\ \E h1, h2 \in Hosts :
          /\ grep_q(MarkerLine(config_block), cfg[h1])
          /\ ~grep_q(MarkerLine(config_block), cfg[h2])

\* C14: after deregister has succeeded on a host, the host's ConfigText holds
\* no frontend or backend marker line of the service.
C14_NoMarkerLeft ==
    (Reached /\ last.result = "removed") =>
        MarkerIdx(splitlines(cfg[last.host]), service_name) = {}

\* The host was read by the latest iteration of a deregister run.
WasRead == Reached /\ last.result # "read_failed"

\* C15: the scan of the lines read from a host gives as start the index of
\* the first marker line of the service, whatever marker lines follow it, and
\* as end the index of the first blank line after start, blank lines before
\* start setting nothing; without a marker line nothing is found, and the run
\* reports the host as not found exactly then.
C15_ScanStartEnd ==
    WasRead =>
        LET found == Locate(FoundLines, service_name)
        IN  /\ (last.result = "not_found") <=> (MarkerIdx(FoundLines, service_name) = {})
            /\ MarkerIdx(FoundLines, service_name) = {} =>
                  found.start_idx = -1 /\ found.end_idx = -1
            /\ MarkerIdx(FoundLines, service_name) # {} =>
                  /\ found.start_idx = BlockStart(FoundLines, service_name)
                  /\ BlanksAfter(FoundLines, service_name) # {} =>
                        found.end_idx = BlockEnd(FoundLines, service_name)
                  /\ BlanksAfter(FoundLines, service_name) = {} =>
                        found.end_idx = -1

\* The scan passed a blank line before the first marker line, stopped at the
\* blank line after it, and a second marker line lies beyond that.
C15_Witness ==
    /\ WasRead
    /\ last.result = "removed"
    /\ \E i \in 0..(Len(FoundLines) - 1) :
          IsBlank(FoundLines[i + 1]) /\ i < Locate(FoundLines, service_name).start_idx
    /\ Locate(FoundLines, service_name).end_idx > Locate(FoundLines, service_name).start_idx
    /\ \E i \in MarkerIdx(FoundLines, service_name) :
          i > Locate(FoundLines, service_name).end_idx

\* C16: in both operations a reload or restart is triggered on a host only
\* after the host's live file was written in the same iteration and its
\* ConfigText is not the one the iteration found.
C16_ReloadOnlyAfterChange ==
    (last.host # 0 /\ last.reload # "none") =>
        /\ last.pushed
        /\ cfg[last.host] # last.before

\* C17: within one run the hosts are taken one at a time in the order of the
\* list.  No host is attempted twice, a host is attempted only when every host
\* before it has been, the latest iteration is the one of the last host
\* attempted, and a run in progress stands at the first host not yet attempted.
C17_SequentialOnce ==
    /\ \A h \in Hosts : attempts[h] <= 1
    /\ \A h \in Hosts : attempts[h] = 1 => \A j \in 1..(h - 1) : attempts[j] = 1
    /\ \A h \in Hosts : attempts[h] = 1 => last.host >= h
    /\ last.host # 0 => attempts[last.host] = 1
    /\ (status = "running" /\ gw <= NumHosts) =>
          /\ attempts[gw] = 0
          /\ last.host = gw - 1

\* A deregister run has ended with every host attempted once, the last of
\* them with a failed remote step.
C17_Witness ==
    /\ mode = "deregister"
    /\ status = "done"
    /\ last.host = NumHosts
    /\ last.failed = "scp_fail"
    /\ \A h \in Hosts : attempts[h] = 1

====
